---- MODULE Spec2Model ----
(***************************************************************************)
(* A state-machine model of SNNetwork (src/SNN.py): one network instance,  *)
(* its parameters, its spiking history, its gradients, and the array       *)
(* store that save / import_weights write and read.                        *)
(*                                                                         *)
(* Tensors are records [shape, data]: shape is the torch.Size as a tuple,  *)
(* data maps every 0-based index tuple of that shape to a number.  Weights *)
(* are integers counted in a fixed quantum smaller than weights_magnitude. *)
(* sigmoid is kept symbolic: a gradient entry is c * (s - sigmoid(p)),     *)
(* stored as the record [c, s, p] (c = 0 is the number zero).              *)
(***************************************************************************)
EXTENDS Integers, Sequences, FiniteSets, TLC

VARIABLES
    cfg,                    \* the constructor's arguments (never reassigned)
    mode, visible_neurons,
    feedforward_mask, feedforward_weights, feedforward_filter,
    feedback_weights, feedback_filter, bias,
    memory_length,
    spiking_history,        \* sequence of columns, oldest first
    potential, feedforward_potential, feedback_potential,
    bias_gradient, ff_gradient, fb_gradient,
    files,                  \* the file system: path -> stored arrays
    result                  \* the last call: its name, its argument, what it raised, where

static == <<cfg, feedforward_mask, feedforward_filter, feedback_filter, memory_length>>
params == <<feedforward_weights, feedback_weights, bias>>
modes == <<mode, visible_neurons>>
pots == <<potential, feedforward_potential, feedback_potential>>
grads == <<bias_gradient, ff_gradient, fb_gradient>>
vars == <<static, params, modes, spiking_history, pots, grads, files, result>>

(***************************** bounds **************************************)
MaxTau == 2
MaxHidden == 1

Tasks == {"supervised", "unsupervised"}
\* one draw of weights_magnitude * (rand * 2 - 1), in weight quanta
RandVals == {-1, 1}

(***************************** helpers *************************************)
Min(a, b) == IF a < b THEN a ELSE b
Max(a, b) == IF a > b THEN a ELSE b

\* Python indexing of a list kept as a TLA+ sequence
At(s, i) == s[i + 1]
Range(s) == {s[k] : k \in DOMAIN s}

RECURSIVE SumFn(_)
SumFn(f) ==
    IF DOMAIN f = {} THEN 0
    ELSE LET x == CHOOSE x \in DOMAIN f : TRUE
         IN f[x] + SumFn([y \in DOMAIN f \ {x} |-> f[y]])

\* the index tuples of a tensor of the given shape (rank 1, 2 or 3)
Indices(shape) ==
    CASE Len(shape) = 1 -> {<<i>> : i \in 0..(shape[1] - 1)}
      [] Len(shape) = 2 -> {<<i, j>> : i \in 0..(shape[1] - 1), j \in 0..(shape[2] - 1)}
      [] Len(shape) = 3 -> {<<i, j, b>> : i \in 0..(shape[1] - 1), j \in 0..(shape[2] - 1),
                                          b \in 0..(shape[3] - 1)}

Full(shape, v) == [shape |-> shape, data |-> [ix \in Indices(shape) |-> v]]
Zeros(shape) == Full(shape, 0)
\* elementwise product of two tensors of one shape
Mul(a, b) == [shape |-> a.shape, data |-> [ix \in Indices(a.shape) |-> a.data[ix] * b.data[ix]]]

(*********************** the neurons (lines 33-58) *************************)
n_neurons(c) == c.n_input_neurons + c.n_hidden_neurons + c.n_output_neurons
input_neurons(c) == [k \in 1..c.n_input_neurons |-> k - 1]
hidden_neurons(c) == [k \in 1..c.n_hidden_neurons |-> c.n_input_neurons + k - 1]
output_neurons(c) ==
    [k \in 1..c.n_output_neurons |-> c.n_input_neurons + c.n_hidden_neurons + k - 1]

n_learnable_neurons(c) ==
    IF c.task = "supervised" THEN c.n_hidden_neurons + c.n_output_neurons ELSE n_neurons(c)
n_non_learnable_neurons(c) ==
    IF c.task = "supervised" THEN c.n_input_neurons ELSE 0
learnable_neurons(c) ==
    IF c.task = "supervised" THEN hidden_neurons(c) \o output_neurons(c)
    ELSE input_neurons(c) \o hidden_neurons(c) \o output_neurons(c)

\* the visible neurons of a mode (lines 63-66 and 221-226)
VisibleOf(c, m) ==
    IF m = "train" THEN input_neurons(c) \o output_neurons(c) ELSE input_neurons(c)

(*********************** construction (lines 72-117) ***********************)
\* line 75: topology[[0..n_learnable-1], learnable_neurons] = 0
ZeroSelf(c, topology) ==
    [topology EXCEPT !.data =
        [ix \in DOMAIN topology.data |->
            IF ix[2] = At(learnable_neurons(c), ix[1]) THEN 0 ELSE topology.data[ix]]]

\* lines 83-84: kron(topology, ones(n_basis)).reshape([n_learnable, n_neurons, n_basis])
MaskOf(c, topology) ==
    LET shape == <<n_learnable_neurons(c), n_neurons(c), c.n_basis_feedforward>>
    IN [shape |-> shape, data |-> [ix \in Indices(shape) |-> topology.data[<<ix[1], ix[2]>>]]]

\* a filter constructor's kernel for (tau, n_basis, mu): shape [n_basis, tau]
Kernel(tau, n_basis) ==
    LET shape == <<n_basis, tau>>
    IN [shape |-> shape, data |-> [ix \in Indices(shape) |-> tau - ix[2]]]

\* line 86 hands tau_fb to the feedforward filter's constructor
FeedforwardFilterOf(c) == Kernel(c.tau_fb, c.n_basis_feedforward)
\* line 98
FeedbackFilterOf(c) == Kernel(c.tau_fb, c.n_basis_feedback)
\* line 106
MemoryLengthOf(c) == Max(c.tau_ff, c.tau_fb)

ff_shape(c) == <<n_learnable_neurons(c), n_neurons(c), c.n_basis_feedforward>>
fb_shape(c) == <<n_learnable_neurons(c), c.n_basis_feedback>>
bias_shape(c) == <<n_learnable_neurons(c)>>

\* lines 85 and 196: weights_magnitude * (rand * 2 - 1) * feedforward_mask
DrawFeedforward(r, mask) == Mul(Full(mask.shape, r), mask)
\* lines 97/103 and 197/198: weights_magnitude * (rand * 2 - 1)
DrawPlain(r, shape) == Full(shape, r)

\* the topologies a caller passes: every synapse, or synapses from the inputs only
Topologies(c) ==
    LET shape == <<n_learnable_neurons(c), n_neurons(c)>>
    IN { Full(shape, 1),
         [shape |-> shape,
          data |-> [ix \in Indices(shape) |-> IF ix[2] < c.n_input_neurons THEN 1 ELSE 0]] }

ZeroColumn(c) == [j \in 0..(n_neurons(c) - 1) |-> 0]
ZeroGrad == [c |-> 0, s |-> 0, p |-> 0]

\* a network of one input and one output neuron, the constructor's defaults elsewhere
\* (save_path <<>> is None)
Network(hidden, task, tau_ff, tau_fb, save_path) ==
    [n_input_neurons |-> 1, n_hidden_neurons |-> hidden, n_output_neurons |-> 1,
     n_basis_feedforward |-> 1, n_basis_feedback |-> 1,
     task |-> task, tau_ff |-> tau_ff, tau_fb |-> tau_fb, save_path |-> save_path]

\* the arguments with the topology as the caller built it
WithTopology(c, topology) ==
    [f \in DOMAIN c \cup {"topology"} |-> IF f = "topology" THEN topology ELSE c[f]]

(***************************** the store ***********************************)
NoFile == [exists |-> FALSE]
Paths == {<<"w">>, <<"cwd", "w">>}
\* os.getcwd() + path
CwdJoin(path) == <<"cwd">> \o path

\* what a file found on disk before the run may hold
ForeignFiles(c) ==
    { NoFile,
      [exists |-> TRUE, ff_weights |-> Full(ff_shape(c), 2),
       fb_weights |-> Full(fb_shape(c), 2), bias |-> Full(bias_shape(c), 2)],
      [exists |-> TRUE, ff_weights |-> Full(ff_shape(c), 2),
       fb_weights |-> Full(<<n_learnable_neurons(c) + 1, c.n_basis_feedback>>, 2),
       bias |-> Full(bias_shape(c), 2)] }

\* the state __init__ leaves (lines 33-120), for a mode and a topology that pass the
\* checks of lines 63-74
Constructed(c, m, topology, r1, r2, r3, f) ==
    /\ cfg = WithTopology(c, topology)
    /\ mode = m
    /\ visible_neurons = VisibleOf(c, m)
    /\ feedforward_mask = MaskOf(c, ZeroSelf(c, topology))
    /\ feedforward_weights = DrawFeedforward(r1, MaskOf(c, ZeroSelf(c, topology)))
    /\ feedforward_filter = FeedforwardFilterOf(c)
    /\ feedback_weights = DrawPlain(r2, fb_shape(c))
    /\ feedback_filter = FeedbackFilterOf(c)
    /\ bias = DrawPlain(r3, bias_shape(c))
    /\ memory_length = MemoryLengthOf(c)
    /\ spiking_history = <<ZeroColumn(c)>>
    /\ potential = Zeros(bias_shape(c))
    /\ feedforward_potential = Zeros(bias_shape(c))
    /\ feedback_potential = Zeros(bias_shape(c))
    /\ bias_gradient = Full(bias_shape(c), ZeroGrad)
    /\ ff_gradient = Full(ff_shape(c), ZeroGrad)
    /\ fb_gradient = Full(fb_shape(c), ZeroGrad)
    /\ files = [p \in Paths |-> IF p = <<"w">> THEN f ELSE NoFile]
    /\ result = [op |-> "__init__", arg |-> <<>>, raised |-> "none", line |-> 0]

\* the default network, with any draw of its weights
Init ==
    \E r1, r2, r3 \in RandVals :
        Constructed(Network(0, "supervised", 1, 1, <<>>), "train",
                    Full(<<1, 2>>, 1), r1, r2, r3, NoFile)

\* every pair of time constants
InitWindow ==
    \E tau_ff, tau_fb \in 1..MaxTau :
        Constructed(Network(0, "supervised", tau_ff, tau_fb, <<>>), "train",
                    Full(<<1, 2>>, 1), 1, -1, 1, NoFile)

\* every network size, task, mode and topology with the default time constants, and
\* the smallest, fully connected network with a window of two steps
InitDynamics ==
    \/ \E c \in {Network(h, t, 1, 1, <<>>) : h \in 0..MaxHidden, t \in Tasks} :
       \E m \in {"train", "test"}, topology \in Topologies(c) :
           Constructed(c, m, topology, 1, -1, 1, NoFile)
    \/ \E c \in {Network(0, t, 2, 2, <<>>) : t \in Tasks}, m \in {"train", "test"} :
           Constructed(c, m, Full(<<n_learnable_neurons(c), n_neurons(c)>>, 1), 1, -1, 1, NoFile)

\* every network size, task, topology and file found on disk, with a default save path
InitParams ==
    \E c \in {Network(h, t, 1, 1, <<"cwd", "w">>) : h \in 0..MaxHidden, t \in Tasks} :
    \E topology \in Topologies(c), f \in ForeignFiles(c) :
        Constructed(c, "train", topology, 1, -1, 1, f)

(***************************** forward *************************************)
\* s[start:] of a Python sequence
SliceFrom(s, start) ==
    LET n == Len(s)
        lo == IF start < 0 THEN Max(n + start, 0) ELSE Min(start, n)
    IN SubSeq(s, lo + 1, n)

\* the number of columns of kernel[:, :stop]
KeptLags(kernel, stop) == Min(stop, kernel.shape[2])

\* torch.matmul(spiking_history.flip(-1), kernel[:, :W].transpose(0, 1)), defined
\* when the history has as many columns as the truncated kernel
Trace(history, kernel) ==
    LET W == Len(history)
        shape == <<Cardinality(DOMAIN history[1]), kernel.shape[1]>>
    IN [shape |-> shape,
        data |-> [ix \in Indices(shape) |->
                    SumFn([k \in 0..(W - 1) |-> history[W - k][ix[1]] * kernel.data[<<ix[2], k>>]])]]

\* line 131: sum(feedforward_weights * feedforward_trace * feedforward_mask, dim=(-1, -2))
FeedforwardPotential(weights, trace, mask) ==
    LET shape == <<weights.shape[1]>>
    IN [shape |-> shape,
        data |-> [ix \in Indices(shape) |->
                    SumFn([jb \in Indices(trace.shape) |->
                             weights.data[<<ix[1], jb[1], jb[2]>>] * trace.data[jb]
                               * mask.data[<<ix[1], jb[1], jb[2]>>]])]]

\* line 134: sum(feedback_weights * feedback_trace[learnable_neurons, :], dim=-1)
FeedbackPotential(c, weights, trace) ==
    LET shape == <<weights.shape[1]>>
    IN [shape |-> shape,
        data |-> [ix \in Indices(shape) |->
                    SumFn([b \in 0..(weights.shape[2] - 1) |->
                             weights.data[<<ix[1], b>>]
                               * trace.data[<<At(learnable_neurons(c), ix[1]), b>>]])]]

Add3(a, b, c) ==
    [shape |-> a.shape, data |-> [ix \in Indices(a.shape) |-> a.data[ix] + b.data[ix] + c.data[ix]]]

\* c * g for a number c and a symbolic gradient entry g
Scale(c, g) == IF c * g.c = 0 THEN ZeroGrad ELSE [g EXCEPT !.c = c * g.c]

\* the input signals a caller passes: none, one spike to broadcast, or one entry for
\* each input and output neuron with a single spike among them
Signals(c) ==
    LET n == c.n_input_neurons + c.n_output_neurons
    IN {<<>>, <<1>>} \cup {[k \in 1..n |-> IF k = hot THEN 1 ELSE 0] : hot \in 1..n}

\* line 142: a value of one entry broadcasts, any other length must match
Assignable(signal, visible) == Len(signal) = Len(visible) \/ Len(signal) = 1
SignalAt(signal, k) == IF Len(signal) = 1 THEN signal[1] ELSE signal[k]

\* the neurons whose new spike is sampled (lines 144-147)
Sampled(c, m) ==
    Range(hidden_neurons(c)) \cup (IF m = "test" THEN Range(output_neurons(c)) ELSE {})

\* lines 140-147: the new last column
NewColumn(c, visible, signal, spikes) ==
    [j \in 0..(n_neurons(c) - 1) |->
        IF j \in DOMAIN spikes THEN spikes[j]
        ELSE IF \E k \in DOMAIN visible : visible[k] = j
             THEN SignalAt(signal, CHOOSE k \in DOMAIN visible : visible[k] = j)
             ELSE 0]

\* how a call ends: by an exception raised at a line, or by returning
\* line 160: the gradients are computed in 'train' mode only
GradientsInEveryMode(m) == TRUE
ComputesGradients(m) == m = "train"

Raise(op, arg, exc, line) == result' = [op |-> op, arg |-> arg, raised |-> exc, line |-> line]
Return(op, arg) == result' = [op |-> op, arg |-> arg, raised |-> "none", line |-> 0]

\* lines 123-172.  spikes holds the outcomes of torch.bernoulli for the sampled
\* neurons: sigmoid of a finite potential lies strictly between 0 and 1, so either
\* outcome can be drawn.  log_proba (lines 152-156) is returned and not kept.
forward(input_signal, spikes) ==
    LET W == Len(spiking_history)
        feedforward_trace == Trace(spiking_history, feedforward_filter)
        ffp == FeedforwardPotential(feedforward_weights, feedforward_trace, feedforward_mask)
        feedback_trace == Trace(spiking_history, feedback_filter)
        fbp == FeedbackPotential(cfg, feedback_weights, feedback_trace)
        pot == Add3(ffp, fbp, bias)
        slid == SliceFrom(spiking_history, -memory_length + 1) \o <<ZeroColumn(cfg)>>
        column == NewColumn(cfg, visible_neurons, input_signal, spikes)
        bg == [shape |-> bias.shape,
               data |-> [ix \in Indices(bias.shape) |->
                           [c |-> 1, s |-> column[At(learnable_neurons(cfg), ix[1])],
                            p |-> pot.data[ix]]]]
    IN IF KeptLags(feedforward_filter, W) # W
       THEN \* line 130: matmul of [n, W] by [lags, n_basis]
            /\ Raise("forward", input_signal, "RuntimeError", 130)
            /\ UNCHANGED <<static, params, modes, spiking_history, pots, grads, files>>
       ELSE IF KeptLags(feedback_filter, W) # W
       THEN \* line 133
            /\ feedforward_potential' = ffp
            /\ Raise("forward", input_signal, "RuntimeError", 133)
            /\ UNCHANGED <<static, params, modes, spiking_history, potential,
                           feedback_potential, grads, files>>
       ELSE /\ feedforward_potential' = ffp
            /\ feedback_potential' = fbp
            /\ potential' = pot
            /\ IF ~Assignable(input_signal, visible_neurons)
               THEN \* line 142: the history has been slid already
                    /\ spiking_history' = slid
                    /\ Raise("forward", input_signal, "RuntimeError", 142)
                    /\ UNCHANGED grads
               ELSE /\ spiking_history' = [slid EXCEPT ![Len(slid)] = column]
                    /\ Return("forward", input_signal)
                    /\ IF ComputesGradients(mode)
                       THEN /\ bias_gradient' = bg
                            /\ ff_gradient' =
                                 [shape |-> feedforward_mask.shape,
                                  data |-> [ix \in Indices(feedforward_mask.shape) |->
                                              Scale(feedforward_trace.data[<<ix[2], ix[3]>>]
                                                      * feedforward_mask.data[ix],
                                                    bg.data[<<ix[1]>>])]]
                            /\ fb_gradient' =
                                 [shape |-> feedback_weights.shape,
                                  data |-> [ix \in Indices(feedback_weights.shape) |->
                                              Scale(feedback_trace.data[
                                                      <<At(learnable_neurons(cfg), ix[1]), ix[2]>>],
                                                    bg.data[<<ix[1]>>])]]
                       ELSE UNCHANGED grads
            /\ UNCHANGED <<static, params, modes, files>>

Forward ==
    \E input_signal \in Signals(cfg) :
    \E spikes \in [Sampled(cfg, mode) -> {0, 1}] :
        forward(input_signal, spikes)

(***************************** setters *************************************)
\* reset_internal_state without line 190
reset_keeping_history ==
    /\ potential' = Zeros(potential.shape)
    /\ Return("reset_internal_state", <<>>)
    /\ UNCHANGED <<static, params, modes, spiking_history, feedforward_potential,
                   feedback_potential, grads, files>>

\* lines 189-192
reset_internal_state ==
    /\ spiking_history' = <<ZeroColumn(cfg)>>
    /\ potential' = Zeros(potential.shape)
    /\ Return("reset_internal_state", <<>>)
    /\ UNCHANGED <<static, params, modes, feedforward_potential, feedback_potential,
                   grads, files>>

\* reset_weights without the mask of line 196
reset_weights_unmasked(r1, r2, r3) ==
    /\ feedforward_weights' = DrawPlain(r1, feedforward_weights.shape)
    /\ feedback_weights' = DrawPlain(r2, feedback_weights.shape)
    /\ bias' = DrawPlain(r3, bias.shape)
    /\ Return("reset_weights", <<>>)
    /\ UNCHANGED <<static, modes, spiking_history, pots, grads, files>>

\* lines 195-199
reset_weights(r1, r2, r3) ==
    /\ feedforward_weights' = DrawFeedforward(r1, feedforward_mask)
    /\ feedback_weights' = DrawPlain(r2, feedback_weights.shape)
    /\ bias' = DrawPlain(r3, bias.shape)
    /\ Return("reset_weights", <<>>)
    /\ UNCHANGED <<static, modes, spiking_history, pots, grads, files>>

ResetInternalState == reset_internal_state

ResetWeights == \E r1, r2, r3 \in RandVals : reset_weights(r1, r2, r3)

\* lines 202-205
set_ff_weights(new_weights) ==
    IF new_weights.shape # feedforward_weights.shape
    THEN /\ Raise("set_ff_weights", new_weights, "AssertionError", 203)
         /\ UNCHANGED <<static, params, modes, spiking_history, pots, grads, files>>
    ELSE /\ feedforward_weights' = new_weights
         /\ Return("set_ff_weights", new_weights)
         /\ UNCHANGED <<static, feedback_weights, bias, modes, spiking_history, pots,
                        grads, files>>

\* lines 208-211
set_fb_weights(new_weights) ==
    IF new_weights.shape # feedback_weights.shape
    THEN /\ Raise("set_fb_weights", new_weights, "AssertionError", 209)
         /\ UNCHANGED <<static, params, modes, spiking_history, pots, grads, files>>
    ELSE /\ feedback_weights' = new_weights
         /\ Return("set_fb_weights", new_weights)
         /\ UNCHANGED <<static, feedforward_weights, bias, modes, spiking_history, pots,
                        grads, files>>

\* set_bias without the assertion of line 215
set_bias_unchecked(new_bias) ==
    /\ bias' = new_bias
    /\ Return("set_bias", new_bias)
    /\ UNCHANGED <<static, feedforward_weights, feedback_weights, modes,
                   spiking_history, pots, grads, files>>

\* lines 214-217
set_bias(new_bias) ==
    IF new_bias.shape # bias.shape
    THEN /\ Raise("set_bias", new_bias, "AssertionError", 215)
         /\ UNCHANGED <<static, params, modes, spiking_history, pots, grads, files>>
    ELSE /\ bias' = new_bias
         /\ Return("set_bias", new_bias)
         /\ UNCHANGED <<static, feedforward_weights, feedback_weights, modes,
                        spiking_history, pots, grads, files>>

\* the tensors a caller hands to a setter: of the parameter's shape, with one row
\* more, or of another rank
WrongShapes(shape) ==
    { [shape EXCEPT ![1] = @ + 1],
      IF Len(shape) > 1 THEN SubSeq(shape, 1, Len(shape) - 1) ELSE shape \o <<1>> }
Offered(shape) == {Full(sh, 2) : sh \in {shape} \cup WrongShapes(shape)}

SetFfWeights == \E t \in Offered(ff_shape(cfg)) : set_ff_weights(t)
SetFbWeights == \E t \in Offered(fb_shape(cfg)) : set_fb_weights(t)
SetBias == \E t \in Offered(bias_shape(cfg)) : set_bias(t)

\* set_mode without line 225
set_mode_stale_visible(m) ==
    IF m \in {"train", "test"}
    THEN /\ visible_neurons' = IF m = "train" THEN input_neurons(cfg) \o output_neurons(cfg)
                                              ELSE visible_neurons
         /\ mode' = m
         /\ Return("set_mode", m)
         /\ UNCHANGED <<static, params, spiking_history, pots, grads, files>>
    ELSE /\ Raise("set_mode", m, "AttributeError", 229)
         /\ UNCHANGED <<static, params, modes, spiking_history, pots, grads, files>>

\* lines 220-230
set_mode(m) ==
    IF m = "train"
    THEN /\ visible_neurons' = input_neurons(cfg) \o output_neurons(cfg)
         /\ mode' = "train"
         /\ Return("set_mode", m)
         /\ UNCHANGED <<static, params, spiking_history, pots, grads, files>>
    ELSE IF m = "test"
    THEN /\ visible_neurons' = input_neurons(cfg)
         /\ mode' = "test"
         /\ Return("set_mode", m)
         /\ UNCHANGED <<static, params, spiking_history, pots, grads, files>>
    ELSE /\ Raise("set_mode", m, "AttributeError", 229)
         /\ UNCHANGED <<static, params, modes, spiking_history, pots, grads, files>>

ModeStrings == {"train", "test", "eval"}
SetMode == \E m \in ModeStrings : set_mode(m)

(***************************** persistence *********************************)
\* lines 243-245: the three arrays written
Saved(ff, fb, b) ==
    [exists |-> TRUE, ff_weights |-> ff, fb_weights |-> fb, bias |-> ff]

\* lines 234-247; path <<>> is None
save(path) ==
    IF path = <<>> /\ cfg.save_path = <<>>
    THEN /\ Raise("save", path, "FileNotFoundError", 240)
         /\ UNCHANGED <<static, params, modes, spiking_history, pots, grads, files>>
    ELSE LET save_path == IF path = <<>> THEN cfg.save_path ELSE CwdJoin(path)
         IN /\ files' = [files EXCEPT
                            ![save_path] = Saved(feedforward_weights, feedback_weights, bias)]
            /\ Return("save", path)
            /\ UNCHANGED <<static, params, modes, spiking_history, pots, grads>>

Save == \E path \in {<<>>, <<"w">>} : save(path)

\* import_weights checking the three shapes before it sets anything
import_weights_atomic(path) ==
    LET f == files[path]
    IN IF ~f.exists
       THEN /\ Raise("import_weights", path, "OSError", 251)
            /\ UNCHANGED <<static, params, modes, spiking_history, pots, grads, files>>
       ELSE /\ IF f.ff_weights.shape # feedforward_weights.shape
               THEN Raise("import_weights", path, "AssertionError", 203) /\ UNCHANGED params
               ELSE IF f.fb_weights.shape # feedback_weights.shape
               THEN Raise("import_weights", path, "AssertionError", 209) /\ UNCHANGED params
               ELSE IF f.bias.shape # bias.shape
               THEN Raise("import_weights", path, "AssertionError", 215) /\ UNCHANGED params
               ELSE /\ feedforward_weights' = f.ff_weights
                    /\ feedback_weights' = f.fb_weights
                    /\ bias' = f.bias
                    /\ Return("import_weights", path)
            /\ UNCHANGED <<static, modes, spiking_history, pots, grads, files>>

\* lines 250-256: the setters run in order, the first that raises ends the call
import_weights(path) ==
    LET f == files[path]
    IN IF ~f.exists
       THEN /\ Raise("import_weights", path, "OSError", 251)
            /\ UNCHANGED <<static, params, modes, spiking_history, pots, grads, files>>
       ELSE /\ IF f.ff_weights.shape # feedforward_weights.shape
               THEN /\ Raise("import_weights", path, "AssertionError", 203)
                    /\ UNCHANGED params
               ELSE /\ feedforward_weights' = f.ff_weights
                    /\ IF f.fb_weights.shape # feedback_weights.shape
                       THEN /\ Raise("import_weights", path, "AssertionError", 209)
                            /\ UNCHANGED <<feedback_weights, bias>>
                       ELSE /\ feedback_weights' = f.fb_weights
                            /\ IF f.bias.shape # bias.shape
                               THEN /\ Raise("import_weights", path, "AssertionError", 215)
                                    /\ UNCHANGED bias
                               ELSE /\ bias' = f.bias
                                    /\ Return("import_weights", path)
            /\ UNCHANGED <<static, modes, spiking_history, pots, grads, files>>

ImportWeights == \E path \in Paths : import_weights(path)

\* the calls that advance or reset the dynamics, and those that touch the parameters
NextDynamics ==
    \/ Forward
    \/ ResetInternalState
    \/ SetMode

NextParams ==
    \/ ResetWeights
    \/ SetFfWeights
    \/ SetFbWeights
    \/ SetBias
    \/ Save
    \/ ImportWeights

Next ==
    \/ Forward
    \/ ResetInternalState
    \/ ResetWeights
    \/ SetFfWeights
    \/ SetFbWeights
    \/ SetBias
    \/ SetMode
    \/ Save
    \/ ImportWeights

\* Spec is every call on the default network.  The claims are settled under three
\* narrower specifications that widen the constructor's arguments instead: the calls
\* of NextParams write only the parameters, the files and result, those of
\* NextDynamics only the mode, the history, the potentials, the gradients and result.
Spec == Init /\ [][Next]_vars
SpecWindow == InitWindow /\ [][NextDynamics]_vars
SpecDynamics == InitDynamics /\ [][NextDynamics]_vars
SpecParams == InitParams /\ [][NextParams]_vars

(***************************** the claims **********************************)
Nonzero(tensor) == \E ix \in DOMAIN tensor.data : tensor.data[ix] # 0
NonzeroGrad(tensor) == \E ix \in DOMAIN tensor.data : tensor.data[ix] # ZeroGrad
LastColumn(history) == history[Len(history)]

\* C1: after every advance that completes the spiking history has at most
\* max(tau_ff, tau_fb) columns, for every tau_ff >= 1 and tau_fb >= 1.
C1_HistoryWithinWindow ==
    (result.op = "forward" /\ result.raised = "none")
        => Len(spiking_history) <= Max(cfg.tau_ff, cfg.tau_fb)

\* C2: the visible neurons are the input and output neurons exactly when the mode is
\* 'train' and the input neurons exactly when it is 'test'; a set_mode call with any
\* other string raises and leaves the mode and the visible neurons as they were; an
\* advance whose input has one entry for each visible neuron of the mode is not
\* refused at the write of the visible rows (line 142).
C2_ModeInvariant ==
    /\ mode \in {"train", "test"}
    /\ mode = "train" <=> visible_neurons = input_neurons(cfg) \o output_neurons(cfg)
    /\ mode = "test" <=> visible_neurons = input_neurons(cfg)
    /\ (/\ result.op = "forward"
        /\ Len(result.arg) = (IF mode = "test" THEN cfg.n_input_neurons
                              ELSE cfg.n_input_neurons + cfg.n_output_neurons))
         => result.line # 142
C2_ModeStep ==
    (result'.op = "set_mode" /\ result'.arg \notin {"train", "test"})
        => (result'.raised = "AttributeError" /\ UNCHANGED <<mode, visible_neurons>>)
C2_VisibleFollowsMode == []C2_ModeInvariant /\ [][C2_ModeStep]_vars
C2_Witness ==
    /\ result.op = "set_mode" /\ result.raised = "AttributeError"
    /\ mode = "test" /\ visible_neurons = input_neurons(cfg)
    /\ Nonzero(potential)

\* C3: after construction and after every reset_weights, feedforward_weights[i, j, :]
\* is 0 wherever the topology the caller passed has a 0 at [i, j], and wherever j is
\* learnable neuron i itself, whatever the topology had there.
C3_WeightsRespectTopology ==
    result.op \in {"__init__", "reset_weights"} =>
        \A ix \in Indices(feedforward_weights.shape) :
            (\/ cfg.topology.data[<<ix[1], ix[2]>>] = 0
             \/ ix[2] = At(learnable_neurons(cfg), ix[1]))
                => feedforward_weights.data[ix] = 0
C3_Witness ==
    /\ result.op = "reset_weights"
    /\ cfg.task = "unsupervised"
    /\ \E ix \in Indices(feedforward_weights.shape) :
          /\ ix[2] = At(learnable_neurons(cfg), ix[1])
          /\ cfg.topology.data[<<ix[1], ix[2]>>] = 1
          /\ feedforward_weights.data[ix] = 0
    /\ Nonzero(feedforward_weights)

\* C4: set_ff_weights, set_fb_weights and set_bias raise on a tensor whose shape is
\* not the parameter's and then leave all three parameters as they were; on a tensor
\* of the parameter's shape they replace that parameter and leave the other two.
C4_Setter(op, old, new, other1, other2) ==
    result'.op = op =>
        IF result'.arg.shape # old.shape
        THEN result'.raised = "AssertionError" /\ UNCHANGED params
        ELSE result'.raised = "none" /\ new = result'.arg /\ UNCHANGED <<other1, other2>>
C4_SettersValidate ==
    [][/\ C4_Setter("set_ff_weights", feedforward_weights, feedforward_weights',
                    feedback_weights, bias)
       /\ C4_Setter("set_fb_weights", feedback_weights, feedback_weights',
                    feedforward_weights, bias)
       /\ C4_Setter("set_bias", bias, bias', feedforward_weights, feedback_weights)]_vars
C4_Witness ==
    /\ result.op = "set_bias" /\ result.raised = "AssertionError"
    /\ feedforward_weights = Full(ff_shape(cfg), 2)
    /\ bias # result.arg

\* C5: save stores the feedforward weights, the feedback weights and the bias under
\* ff_weights, fb_weights and bias, and import_weights of the file just saved
\* succeeds and leaves the three parameters as they were when saved.
SaveTarget(c, path) == IF path = <<>> THEN c.save_path ELSE CwdJoin(path)
C5_SaveImportRoundTrip ==
    [][/\ (result'.op = "save" /\ result'.raised = "none") =>
              LET f == files'[SaveTarget(cfg, result'.arg)]
              IN /\ f.ff_weights = feedforward_weights
                 /\ f.fb_weights = feedback_weights
                 /\ f.bias = bias
       /\ (/\ result.op = "save" /\ result.raised = "none"
           /\ result'.op = "import_weights"
           /\ result'.arg = SaveTarget(cfg, result.arg)) =>
              (result'.raised = "none" /\ UNCHANGED params)]_vars

\* C6: an advance in 'test' mode leaves the three gradients as they were, and when it
\* completes it has set the potential and written the new column of the history; an
\* advance that completes in 'train' mode sets the three gradients from the new
\* spikes, the new potential and the traces of the history it started from.
C6_Advance ==
    result'.op = "forward" =>
        /\ mode = "test" => UNCHANGED grads
        /\ result'.raised = "none" =>
              /\ potential' = Add3(feedforward_potential', feedback_potential', bias)
              /\ \A k \in DOMAIN visible_neurons :
                    LastColumn(spiking_history')[visible_neurons[k]]
                        = SignalAt(result'.arg, k)
        /\ (mode = "train" /\ result'.raised = "none") =>
              /\ \A ix \in Indices(bias.shape) :
                    bias_gradient'.data[ix] =
                        [c |-> 1,
                         s |-> LastColumn(spiking_history')[At(learnable_neurons(cfg), ix[1])],
                         p |-> potential'.data[ix]]
              /\ \A ix \in Indices(feedforward_weights.shape) :
                    ff_gradient'.data[ix] =
                        Scale(Trace(spiking_history, feedforward_filter).data[<<ix[2], ix[3]>>]
                                * feedforward_mask.data[ix],
                              bias_gradient'.data[<<ix[1]>>])
              /\ \A ix \in Indices(feedback_weights.shape) :
                    fb_gradient'.data[ix] =
                        Scale(Trace(spiking_history, feedback_filter).data[
                                <<At(learnable_neurons(cfg), ix[1]), ix[2]>>],
                              bias_gradient'.data[<<ix[1]>>])
C6_TestKeepsGradients == [][C6_Advance]_vars
C6_Witness ==
    /\ result.op = "forward" /\ result.raised = "none" /\ mode = "test"
    /\ NonzeroGrad(bias_gradient) /\ NonzeroGrad(ff_gradient) /\ NonzeroGrad(fb_gradient)
    /\ \E ix \in Indices(bias.shape) :
          bias_gradient.data[ix].s # LastColumn(spiking_history)[At(learnable_neurons(cfg), ix[1])]

\* C7: reset_internal_state leaves the weights, the bias and the mode as they were,
\* and the advance that follows it sets the potential of every learnable neuron to
\* its bias, as the first advance of a new network does.
C7_Reset ==
    /\ result'.op = "reset_internal_state" =>
          /\ UNCHANGED <<feedforward_weights, feedback_weights, bias, mode>>
          /\ spiking_history' = <<ZeroColumn(cfg)>>
    /\ (result.op \in {"reset_internal_state", "__init__"} /\ result'.op = "forward") =>
          /\ result'.line \notin {130, 133}
          /\ potential' = bias
C7_ResetThenAdvance == [][C7_Reset]_vars
\* a reset after advances that saw spikes: potentials and gradients of those
\* advances are still there, the history is not
C7_Witness ==
    /\ result.op = "reset_internal_state"
    /\ Nonzero(feedforward_potential) /\ Nonzero(feedback_potential)
    /\ NonzeroGrad(ff_gradient)
    /\ spiking_history = <<ZeroColumn(cfg)>>

\* C8: in every reachable state the stored feedforward weights are 0 at every entry
\* where the topology forbids a connection.
C8_StoredWeightsMasked ==
    \A ix \in Indices(feedforward_weights.shape) :
        feedforward_mask.data[ix] = 0 => feedforward_weights.data[ix] = 0

\* C9 as claimed: an import_weights call that raises leaves the feedforward weights,
\* the feedback weights and the bias as they were.
C9_ImportAllOrNothing ==
    [][(result'.op = "import_weights" /\ result'.raised # "none") => UNCHANGED params]_vars

\* C9 amended: import_weights applies ff_weights, fb_weights and bias in that order
\* and stops at the first whose shape is not the parameter's: the parameters before
\* it are replaced, that one and those after it keep their values.
C9_Import ==
    result'.op = "import_weights" =>
        LET f == files[result'.arg]
        IN IF ~f.exists
           THEN result'.raised = "OSError" /\ UNCHANGED params
           ELSE LET ff_ok == f.ff_weights.shape = feedforward_weights.shape
                    fb_ok == ff_ok /\ f.fb_weights.shape = feedback_weights.shape
                    bias_ok == fb_ok /\ f.bias.shape = bias.shape
                IN /\ feedforward_weights' = IF ff_ok THEN f.ff_weights ELSE feedforward_weights
                   /\ feedback_weights' = IF fb_ok THEN f.fb_weights ELSE feedback_weights
                   /\ bias' = IF bias_ok THEN f.bias ELSE bias
                   /\ result'.raised = "none" <=> bias_ok
C9_ImportStopsAtFirstMismatch == [][C9_Import]_vars
C9_Witness ==
    /\ result.op = "import_weights" /\ result.line = 209
    /\ feedforward_weights = files[result.arg].ff_weights
    /\ feedback_weights # files[result.arg].fb_weights

\* C10: at the start of every advance with a correctly sized input the history is no
\* wider than the lags of the feedforward kernel and of the feedback kernel, the
\* feedforward kernel has tau_ff lags, and the advance does not end in a dimension
\* mismatch (lines 130 and 133).
C10_Advance ==
    (result'.op = "forward" /\ Len(result'.arg) = Len(visible_neurons)) =>
        /\ Len(spiking_history) <= feedforward_filter.shape[2]
        /\ Len(spiking_history) <= feedback_filter.shape[2]
        /\ feedforward_filter.shape[2] = cfg.tau_ff
        /\ result'.line \notin {130, 133}
C10_AdvanceFitsKernels == [][C10_Advance]_vars
====
